---- MODULE Spec2Model ----
(***************************************************************************)
(* Point operators on 8-bit images (assignment/point_operators.py) and the *)
(* histogram-equalization command (equalize_image.py).                     *)
(*                                                                         *)
(* Two specifications are given.  Spec is one run of the command           *)
(* (main -> read_image).  SpecLib is a caller of the library functions     *)
(* apply_lut, adjust_brightness, adjust_contrast, adjust_exposure and of   *)
(* the equalization block of read_image, with arguments drawn from bounded *)
(* sets.                                                                   *)
(*                                                                         *)
(* numpy computes the equalization table in IEEE-754 binary64.  TLC has    *)
(* 32-bit integers, so binary64 significands are modelled with           *)
(* multi-limb naturals (base 2^16) and round-to-nearest-even.             *)
(***************************************************************************)
EXTENDS Integers, Sequences, FiniteSets, TLC

VARIABLES pc, img, hist, lut, new_img, err, saved, exit_code, heap, args

vars == <<pc, img, hist, lut, new_img, err, saved, exit_code, heap, args>>

(***************************************************************************)
(* Multi-limb naturals: a sequence of limbs, least significant first.      *)
(***************************************************************************)
Pow2Tab == <<1, 2, 4, 8, 16, 32, 64, 128, 256, 512, 1024, 2048, 4096,
             8192, 16384, 32768, 65536>>

\* width of a limb: the largest power in the table
LimbBits == Len(Pow2Tab) - 1

Pow2(k) == Pow2Tab[k + 1]

LimbBase == Pow2(LimbBits)

Limb(n, i) == IF i >= 1 /\ i <= Len(n) THEN n[i] ELSE 0

RECURSIVE Trim(_)
Trim(n) ==
    IF n = <<>> THEN <<>>
    ELSE IF n[Len(n)] = 0 THEN Trim(SubSeq(n, 1, Len(n) - 1))
    ELSE n

BitLenLimb(x) ==
    CHOOSE b \in 0..LimbBits : x < Pow2(b) /\ (b = 0 \/ x >= Pow2(b - 1))

BitLen(n) ==
    LET t == Trim(n)
    IN  IF t = <<>> THEN 0
        ELSE LimbBits * (Len(t) - 1) + BitLenLimb(t[Len(t)])

FromInt(x) == Trim(<<x % LimbBase, x \div LimbBase>>)

ToInt(n) == Limb(n, 1) + LimbBase * Limb(n, 2)

Bit(n, p) == (Limb(n, (p \div LimbBits) + 1) \div Pow2(p % LimbBits)) % 2

\* TRUE iff some bit of n below position s is set
LowBitsNonZero(n, s) ==
    LET q == s \div LimbBits
        r == s % LimbBits
    IN  \/ \E i \in 1..q : Limb(n, i) # 0
        \/ Limb(n, q + 1) % Pow2(r) # 0

ShiftRight(n, s) ==
    LET q == s \div LimbBits
        r == s % LimbBits
    IN  IF Len(n) <= q THEN <<>>
        ELSE Trim([i \in 1..(Len(n) - q) |->
                     (Limb(n, i + q) \div Pow2(r))
                     + (Limb(n, i + q + 1) % Pow2(r)) * Pow2(LimbBits - r)])

ShiftLeft(n, s) ==
    LET q == s \div LimbBits
        r == s % LimbBits
    IN  Trim([i \in 1..(Len(n) + q + 1) |->
                (Limb(n, i - q) % Pow2(LimbBits - r)) * Pow2(r)
                + (Limb(n, i - q - 1) \div Pow2(LimbBits - r))])

RECURSIVE AddRec(_, _, _, _, _)
AddRec(a, b, i, carry, acc) ==
    IF i > Len(a) /\ i > Len(b)
    THEN IF carry = 0 THEN acc ELSE Append(acc, carry)
    ELSE LET s == Limb(a, i) + Limb(b, i) + carry
         IN  AddRec(a, b, i + 1, s \div LimbBase, Append(acc, s % LimbBase))

AddBig(a, b) == Trim(AddRec(a, b, 1, 0, <<>>))

RECURSIVE MulRec(_, _, _, _, _)
MulRec(a, k, i, carry, acc) ==
    IF i > Len(a)
    THEN IF carry = 0 THEN acc ELSE Append(acc, carry)
    ELSE LET p == a[i] * k + carry
         IN  MulRec(a, k, i + 1, p \div LimbBase, Append(acc, p % LimbBase))

\* a * k for a small factor k < 2^14
MulSmall(a, k) == Trim(MulRec(a, k, 1, 0, <<>>))

RECURSIVE DivRec(_, _, _, _, _)
DivRec(a, d, i, rem, acc) ==
    IF i = 0 THEN [q |-> Trim(acc), r |-> rem]
    ELSE LET cur == rem * LimbBase + a[i]
         IN  DivRec(a, d, i - 1, cur % d, <<cur \div d>> \o acc)

\* quotient and remainder of a by a small divisor d < 2^15
DivSmall(a, d) == DivRec(a, d, Len(a), 0, <<>>)

(***************************************************************************)
(* IEEE-754 binary64, non-negative values, round-to-nearest-even.          *)
(* A finite non-zero value is m * 2^e with 2^52 <= m < 2^53.               *)
(* The values met here lie far from the subnormal and overflow ranges.     *)
(***************************************************************************)
Precision == 53

FZero == [kind |-> "zero"]
FNaN == [kind |-> "nan"]
FInf == [kind |-> "inf"]

\* the binary64 nearest to (n + s) * 2^e, 0 <= s < 1, s > 0 iff sticky
RoundFloat(n, e, sticky) ==
    LET L == BitLen(n)
    IN  IF L = 0 THEN FZero
        ELSE IF L <= Precision
        THEN [kind |-> "num", m |-> ShiftLeft(n, Precision - L),
              e |-> e - (Precision - L)]
        ELSE LET s == L - Precision
                 q == ShiftRight(n, s)
                 guard == Bit(n, s - 1)
                 st == sticky \/ LowBitsNonZero(n, s - 1)
                 up == guard = 1 /\ (st \/ Bit(q, 0) = 1)
                 r == IF up THEN AddBig(q, <<1>>) ELSE q
             IN  IF BitLen(r) > Precision
                 THEN [kind |-> "num", m |-> ShiftRight(r, 1), e |-> e + s + 1]
                 ELSE [kind |-> "num", m |-> r, e |-> e + s]

\* extra quotient bits kept by FDiv: the quotient of a * 2^DivShift by a
\* divisor below 2^15 has more than Precision + 1 bits
DivShift == 5 * LimbBits

\* float64(a) / float64(b) for integers a >= 0, b >= 0 (numpy true_divide)
FDiv(a, b) ==
    IF b = 0 THEN (IF a = 0 THEN FNaN ELSE FInf)
    ELSE IF a = 0 THEN FZero
    ELSE LET d == DivSmall(ShiftLeft(FromInt(a), DivShift), b)
         IN  RoundFloat(d.q, -DivShift, d.r # 0)

\* x + y in binary64
FAdd(x, y) ==
    IF x.kind = "nan" \/ y.kind = "nan" THEN FNaN
    ELSE IF x.kind = "inf" \/ y.kind = "inf" THEN FInf
    ELSE IF x.kind = "zero" THEN y
    ELSE IF y.kind = "zero" THEN x
    ELSE LET hi == IF x.e >= y.e THEN x ELSE y
             lo == IF x.e >= y.e THEN y ELSE x
         IN  RoundFloat(AddBig(ShiftLeft(hi.m, hi.e - lo.e), lo.m), lo.e, FALSE)

\* x * k in binary64 for a small positive integer k
FMulInt(x, k) ==
    IF x.kind = "num" THEN RoundFloat(MulSmall(x.m, k), x.e, FALSE) ELSE x

\* the integer part of a finite x, 0 <= x < 2^31 (so that x.e < 0)
FFloor(x) ==
    IF x.kind = "zero" THEN 0 ELSE ToInt(ShiftRight(x.m, -x.e))

\* x > k for an integer k >= 0
FGreater(x, k) ==
    CASE x.kind = "nan" -> FALSE
      [] x.kind = "inf" -> TRUE
      [] x.kind = "zero" -> FALSE
      [] OTHER -> \/ FFloor(x) > k
                  \/ FFloor(x) = k /\ LowBitsNonZero(x.m, -x.e)

(***************************************************************************)
(* numpy arrays.  An array is a descriptor (buffer, dtype, shape) of a     *)
(* C-ordered buffer on the heap; heap[b] is the flat data of buffer b,     *)
(* flat index i stored at position i + 1.                                  *)
(***************************************************************************)
LutSize == 256

MaxIntensity == 255

NoArray == [buf |-> 0, dtype |-> "none", shape |-> <<>>]

RECURSIVE Size(_)
Size(shape) ==
    IF shape = <<>> THEN 1 ELSE shape[1] * Size(Tail(shape))

Data(h, a) == h[a.buf]

\* a[p] for a coordinate tuple p (row-major order)
RECURSIVE FlatIndex(_, _)
FlatIndex(shape, p) ==
    IF Len(shape) = 0 THEN 0
    ELSE LET n == Len(shape)
         IN  FlatIndex(SubSeq(shape, 1, n - 1), SubSeq(p, 1, n - 1)) * shape[n]
             + p[n]

At(h, a, p) == Data(h, a)[FlatIndex(a.shape, p) + 1]

\* the coordinates of an array of one, two or three dimensions
Coords(shape) ==
    CASE Len(shape) = 1 -> {<<r>> : r \in 0..(shape[1] - 1)}
      [] Len(shape) = 2 ->
            {<<r, c>> : r \in 0..(shape[1] - 1), c \in 0..(shape[2] - 1)}
      [] Len(shape) = 3 ->
            {<<r, c, k>> : r \in 0..(shape[1] - 1), c \in 0..(shape[2] - 1),
                           k \in 0..(shape[3] - 1)}

\* a new array holding `data`
NewArray(h, data, dtype, shape) ==
    [heap |-> Append(h, data),
     arr |-> [buf |-> Len(h) + 1, dtype |-> dtype, shape |-> shape]]

\* mutant of FlattenCopy: a one-dimensional view of a (as a.ravel() gives)
FlattenView(h, a) ==
    [heap |-> h,
     arr |-> [buf |-> a.buf, dtype |-> a.dtype, shape |-> <<Size(a.shape)>>]]

\* np.array(a.flatten()): a one-dimensional copy of a in a new buffer
FlattenCopy(h, a) == NewArray(h, Data(h, a), a.dtype, <<Size(a.shape)>>)

\* np.reshape(a, shape): a view of the same buffer
Reshape(a, shape) == [buf |-> a.buf, dtype |-> a.dtype, shape |-> shape]

\* lut[v]
LutAt(table, v) == table[v + 1]

\* mutant of LutLoop: the loop stops one sample short
RECURSIVE LutLoopShort(_, _, _)
LutLoopShort(data, table, i) ==
    IF i >= Len(data) THEN data
    ELSE LutLoopShort([data EXCEPT ![i] = LutAt(table, data[i])], table, i + 1)

\* the loop of apply_lut: data[k] = lut[data[k]] for the flat indices from i on
RECURSIVE LutLoop(_, _, _)
LutLoop(data, table, i) ==
    IF i > Len(data) THEN data
    ELSE LutLoop([data EXCEPT ![i] = LutAt(table, data[i])], table, i + 1)

\* lines 34-44 of apply_lut, on heap h: the heap after the call, the error
\* raised ("none" if none) and the array returned
ApplyLutBody(h, image, table) ==
    LET f == FlattenCopy(h, image)
        b == f.arr.buf
        h2 == [f.heap EXCEPT ![b] = LutLoop(f.heap[b], Data(h, table), 1)]
    IN  IF Len(image.shape) = 2
        THEN [heap |-> h2, err |-> "none",
              ret |-> Reshape(f.arr, <<image.shape[1], image.shape[2]>>)]
        ELSE IF Len(image.shape) = 3
        THEN [heap |-> h2, err |-> "none",
              ret |-> Reshape(f.arr, <<image.shape[1], image.shape[2],
                                        image.shape[3]>>)]
        \* unpacking np.shape(img) into three names fails
        ELSE [heap |-> h, err |-> "ValueError", ret |-> NoArray]

\* mutant of apply_lut: the sample types are checked before the length
apply_lut_TypesFirst(h, image, table) ==
    IF ~(table.dtype = "uint8" /\ image.dtype = "uint8")
    THEN [heap |-> h, err |-> "TypeError", ret |-> NoArray]
    ELSE IF Size(table.shape) # LutSize
    THEN [heap |-> h, err |-> "ValueError", ret |-> NoArray]
    ELSE ApplyLutBody(h, image, table)

\* apply_lut(img, lut)
apply_lut(h, image, table) ==
    IF Size(table.shape) # LutSize
    THEN [heap |-> h, err |-> "ValueError", ret |-> NoArray]
    ELSE IF ~(table.dtype = "uint8" /\ image.dtype = "uint8")
    THEN [heap |-> h, err |-> "TypeError", ret |-> NoArray]
    ELSE ApplyLutBody(h, image, table)

(***************************************************************************)
(* 64-bit integers (np.arange(256) is int64).  A value is kept as its      *)
(* distance d to an anchor: "zero" (value d), "max" (value 2^63 - 1 - d,   *)
(* d >= 0) or "min" (value -2^63 + d, d >= 0); d is small.                 *)
(***************************************************************************)
I64(d) == [anchor |-> "zero", d |-> d]

\* i + x modulo 2^64 for 0 <= i <= 255
I64Add(i, x) ==
    CASE x.anchor = "zero" -> I64(i + x.d)
      [] x.anchor = "min" -> [anchor |-> "min", d |-> x.d + i]
      [] x.anchor = "max" ->
            IF i <= x.d THEN [anchor |-> "max", d |-> x.d - i]
            ELSE [anchor |-> "min", d |-> i - x.d - 1]

I64Greater(x, k) ==
    CASE x.anchor = "zero" -> x.d > k
      [] x.anchor = "min" -> FALSE
      [] x.anchor = "max" -> TRUE

I64Less(x, k) ==
    CASE x.anchor = "zero" -> x.d < k
      [] x.anchor = "min" -> TRUE
      [] x.anchor = "max" -> FALSE

\* the table of 256 entries with entry i equal to f[i]
Table(f) == [k \in 1..LutSize |-> f[k - 1]]

\* adjust_brightness(offset): the 256 entries returned
adjust_brightness(offset) ==
    LET shifted == [i \in 0..(LutSize - 1) |-> I64Add(i, offset)]
        high == [i \in 0..(LutSize - 1) |->
                    IF I64Greater(shifted[i], MaxIntensity)
                    THEN I64(MaxIntensity) ELSE shifted[i]]
        low == [i \in 0..(LutSize - 1) |->
                    IF I64Less(high[i], 0) THEN I64(0) ELSE high[i]]
    IN  Table([i \in 0..(LutSize - 1) |-> low[i].d])

(***************************************************************************)
(* adjust_contrast.  A scale is the binary fraction num / 2^shift; with    *)
(* such a scale every product and sum of line 97 is a multiple of          *)
(* 2^-shift below 2^31 and so is exact in binary64.                        *)
(***************************************************************************)
\* f[lo] + ... + f[hi], halving the range to keep the evaluation shallow
RECURSIVE SumRange(_, _, _)
SumRange(f, lo, hi) ==
    IF lo > hi THEN 0
    ELSE IF lo = hi THEN f[lo]
    ELSE LET mid == (lo + hi) \div 2
         IN  SumRange(f, lo, mid) + SumRange(f, mid + 1, hi)

\* mutant of MeanBrightness: the quotient plus one half, so that int()
\* rounds it to nearest
MeanBrightnessRounded(h) ==
    FDiv(2 * SumRange([k \in 1..LutSize |-> (k - 1) * h[k]], 1, LutSize)
           + SumRange(h, 1, Len(h)),
         2 * SumRange(h, 1, Len(h)))

\* np.sum([i * hist[i] for i in range(256)]) / np.sum(hist), a binary64
MeanBrightness(h) ==
    FDiv(SumRange([k \in 1..LutSize |-> (k - 1) * h[k]], 1, LutSize),
         SumRange(h, 1, Len(h)))

\* lines 95-101 of adjust_contrast
ContrastTable(scale, h) ==
    LET mean == MeanBrightness(h)
    IN  \* int() of NaN raises ValueError
        IF mean.kind = "nan" THEN [err |-> "ValueError", table |-> <<>>]
        ELSE LET brightness == FFloor(mean)
                 one == Pow2(scale.shift)
                 \* lut_contrast[i] * 2^shift
                 raw == [i \in 0..(LutSize - 1) |->
                           scale.num * i + (one - scale.num) * brightness]
                 high == [i \in 0..(LutSize - 1) |->
                           IF raw[i] > MaxIntensity * one
                           THEN MaxIntensity * one ELSE raw[i]]
                 low == [i \in 0..(LutSize - 1) |->
                           IF high[i] < 0 THEN 0 ELSE high[i]]
             IN  [err |-> "none",
                  table |-> Table([i \in 0..(LutSize - 1) |-> low[i] \div one])]

\* mutant of adjust_contrast: the scale is not checked
adjust_contrast_AnyScale(scale, h) ==
    IF Len(h) # LutSize
    THEN [err |-> "ValueError", table |-> <<>>]
    ELSE ContrastTable(scale, h)

adjust_contrast(scale, h) ==
    IF Len(h) # LutSize \/ scale.num < 0
    THEN [err |-> "ValueError", table |-> <<>>]
    ELSE ContrastTable(scale, h)

(***************************************************************************)
(* adjust_exposure for gamma in {-1.0, 0.0, 1.0}: pow(x, 0) is 1 and       *)
(* pow(x, 1) is x for every x, exactly.                                    *)
(***************************************************************************)
FOne == FDiv(1, 1)

FPow(x, gamma) == IF gamma = 0 THEN FOne ELSE x

adjust_exposure(gamma) ==
    IF gamma < 0 THEN [err |-> "ValueError", table |-> <<>>]
    ELSE [err |-> "none",
          table |-> Table([i \in 0..(LutSize - 1) |->
                     FFloor(FMulInt(FPow(FDiv(i, MaxIntensity), gamma),
                                    MaxIntensity)) % LutSize])]

(***************************************************************************)
(* The equalization block of read_image (lines 30-40) as a function of the *)
(* histogram.  nanv is the value the cast of NaN to uint8 gives, which C   *)
(* leaves undefined.                                                       *)
(***************************************************************************)
\* np.cumsum over f[lo..hi], left to right, starting from the running sum
\* acc.  The range is halved to keep the evaluation shallow; the additions
\* are made in index order.
RECURSIVE CumSumRange(_, _, _, _)
CumSumRange(f, lo, hi, acc) ==
    IF lo = hi THEN <<FAdd(acc, f[lo])>>
    ELSE LET mid == (lo + hi) \div 2
             left == CumSumRange(f, lo, mid, acc)
             right == CumSumRange(f, mid + 1, hi, left[Len(left)])
         IN  left \o right

\* mutant of CumSum: the running sum is dropped
CumSumNoCarry(f) == [k \in 1..Len(f) |-> f[k]]

CumSum(f) == CumSumRange(f, 1, Len(f), FZero)

CastUint8(x, nanv) ==
    IF x.kind = "nan" THEN nanv ELSE FFloor(x) % LutSize

F255 == FDiv(MaxIntensity, 1)

Equalization(h, nanv) ==
    IF Len(h) < LutSize
    THEN [err |-> "IndexError", table |-> <<>>]
    ELSE LET pixels == SumRange(h, 1, LutSize)
             pmf == [k \in 1..Len(h) |-> FDiv(h[k], pixels)]
             cdf == CumSum(pmf)
             scaled == [k \in 1..Len(h) |-> FMulInt(cdf[k], MaxIntensity)]
             high == [k \in 1..Len(h) |->
                        IF FGreater(scaled[k], MaxIntensity)
                        THEN F255 ELSE scaled[k]]
             \* no entry is negative: np.where(lut < 0, 0, lut) keeps them all
         IN  [err |-> "none",
              table |-> [k \in 1..Len(h) |-> CastUint8(high[k], nanv)]]

(***************************************************************************)
(* Collaborators outside the source tree.                                  *)
(***************************************************************************)
\* assignment.analysis.histogram: the count of samples at each intensity
histogram(data) ==
    [k \in 1..LutSize |-> Cardinality({i \in 1..Len(data) : data[i] = k - 1})]

(***************************************************************************)
(* Inputs.                                                                 *)
(***************************************************************************)
MaxH == 2
MaxW == 2
MaxC == 2
MaxCount == 4
MaxEdge == 1
MaxScaleNum == 5
MaxScaleShift == 2

RampBases == {0, 250}
RampSteps == {0, 1, 60}

\* sample i of a ramp
Ramp(base, step, n) == [i \in 1..n |-> base + step * (i - 1)]

Shapes2 == {<<h, w>> : h \in 1..MaxH, w \in 1..MaxW}

Shapes ==
    {<<w>> : w \in 1..MaxW} \cup Shapes2
    \cup {<<h, w, c>> : h \in 1..MaxH, w \in 1..MaxW, c \in 1..MaxC}

\* what a file decodes to: a greyscale image of 8 or 16 bits per sample
\* (as_gray=True leaves a greyscale file's samples as they are)
FileImages ==
    {[shape |-> sh, data |-> Ramp(b, st, Size(sh))] :
        sh \in Shapes2, b \in RampBases, st \in RampSteps}

\* img.astype(np.uint8)
AsUint8(data) == [i \in 1..Len(data) |-> data[i] % LutSize]

LibImages ==
    {[shape |-> sh, dtype |-> "uint8", data |-> AsUint8(Ramp(b, st, Size(sh)))] :
        sh \in Shapes, b \in RampBases, st \in RampSteps}
    \cup {[shape |-> sh, dtype |-> "uint16", data |-> Ramp(b, st, Size(sh))] :
        sh \in Shapes, b \in RampBases, st \in {60}}

Offsets ==
    {I64(d) : d \in {-300, -256, -255, -254, -100, -1, 0, 1, 100, 254, 255,
                     256, 300}}
    \cup {[anchor |-> a, d |-> d] : a \in {"max", "min"}, d \in 0..MaxEdge}

Scales == {[num |-> n, shift |-> s] : n \in (-1)..MaxScaleNum,
                                      s \in 0..MaxScaleShift}

Gammas == {-1, 0, 1}

Bins == <<64, 128, 192>>

Sparse(c) ==
    [k \in 1..LutSize |->
        IF \E j \in 1..Len(Bins) : Bins[j] = k - 1
        THEN c[CHOOSE j \in 1..Len(Bins) : Bins[j] = k - 1] ELSE 0]

Uniform(n) == [k \in 1..n |-> 1]

Spike == [k \in 1..LutSize |-> IF k - 1 = 128 THEN 100 ELSE 0]

Histograms ==
    {Sparse(c) : c \in [1..Len(Bins) -> 0..MaxCount]}
    \cup {Uniform(LutSize), Uniform(LutSize - 1), Uniform(LutSize + 1), Spike,
          [k \in 1..(LutSize + 1) |-> 0]}

\* outcomes of casting NaN to uint8
NanCasts == {0, MaxIntensity}

Tables ==
    {[dtype |-> "uint8", data |-> adjust_brightness(I64(d))] : d \in {0, 40, -300}}
    \cup {[dtype |-> "uint8", data |-> Table([i \in 0..(LutSize - 1) |->
                                                 MaxIntensity - i])],
          [dtype |-> "int64", data |-> Table([i \in 0..(LutSize - 1) |-> i])],
          [dtype |-> "uint8", data |-> Uniform(LutSize - 1)],
          [dtype |-> "uint8", data |-> Uniform(LutSize + 1)],
          [dtype |-> "int64", data |-> Uniform(LutSize + 1)]}

(***************************************************************************)
(* State.  pc is the position of the run, or of the caller in SpecLib;     *)
(* img, lut and new_img are array descriptors, hist a sequence of counts;  *)
(* saved holds what io.imsave wrote; exit_code is -1 while the process     *)
(* runs; args records the arguments of the library call, as they were      *)
(* when the call was made.                                                 *)
(***************************************************************************)
NoArgs == [fn |-> "none"]

Fresh(p, a) ==
    /\ pc = p
    /\ img = NoArray
    /\ hist = <<>>
    /\ lut = NoArray
    /\ new_img = NoArray
    /\ err = "none"
    /\ saved = <<>>
    /\ exit_code = -1
    /\ heap = <<>>
    /\ args = a

(***************************************************************************)
(* The command: main() calls read_image(input_image, output_image).        *)
(***************************************************************************)
Init == Fresh("main", [fn |-> "main"])

\* mutant of Raise: the exception is swallowed and the process exits with 0
RaiseExitZero(kind) ==
    /\ err' = kind
    /\ pc' = "exit"
    /\ exit_code' = 0

\* an exception nobody catches ends the process with a traceback
Raise(kind) ==
    /\ err' = kind
    /\ pc' = "exit"
    /\ exit_code' = 1

\* lines 20-21: io.imread(..., as_gray=True), img.astype(np.uint8)
ReadFile ==
    /\ pc = "main"
    /\ \/ \E f \in FileImages :
            LET a == NewArray(heap, AsUint8(f.data), "uint8", f.shape)
            IN  /\ heap' = a.heap
                /\ img' = a.arr
                /\ pc' = "decoded"
                /\ UNCHANGED <<err, exit_code>>
       \/ /\ Raise("OSError")
          /\ UNCHANGED <<heap, img>>
    /\ UNCHANGED <<hist, lut, new_img, saved, args>>

\* line 24: hist = histogram(img)
ComputeHistogram ==
    /\ pc = "decoded"
    /\ hist' = histogram(Data(heap, img))
    /\ pc' = "histogram"
    /\ UNCHANGED <<img, lut, new_img, err, saved, exit_code, heap, args>>

\* lines 30-40
Equalize ==
    /\ pc = "histogram"
    /\ \E nanv \in NanCasts :
          LET r == Equalization(hist, nanv)
              a == NewArray(heap, r.table, "uint8", <<Len(r.table)>>)
          IN  IF r.err # "none"
              THEN Raise(r.err) /\ UNCHANGED <<heap, lut>>
              ELSE /\ heap' = a.heap
                   /\ lut' = a.arr
                   /\ pc' = "equalized"
                   /\ UNCHANGED <<err, exit_code>>
    /\ UNCHANGED <<img, hist, new_img, saved, args>>

\* line 42: new_img = apply_lut(img, lut)
Apply ==
    /\ pc = "equalized"
    /\ LET r == apply_lut(heap, img, lut)
       IN  IF r.err # "none"
           THEN Raise(r.err) /\ UNCHANGED <<heap, new_img>>
           ELSE /\ heap' = r.heap
                /\ new_img' = r.ret
                /\ pc' = "applied"
                /\ UNCHANGED <<err, exit_code>>
    /\ UNCHANGED <<img, hist, lut, saved, args>>

\* lines 44-53: the histogram of the result, then io.imsave, which may fail
Save ==
    /\ pc = "applied"
    /\ hist' = histogram(Data(heap, new_img))
    /\ \/ /\ saved' = <<[shape |-> new_img.shape, data |-> Data(heap, new_img)]>>
          /\ pc' = "saved"
          /\ UNCHANGED <<err, exit_code>>
       \/ /\ Raise("OSError")
          /\ UNCHANGED saved
    /\ UNCHANGED <<img, lut, new_img, heap, args>>

\* line 55 and the return from main
Exit ==
    /\ pc = "saved"
    /\ pc' = "exit"
    /\ exit_code' = 0
    /\ UNCHANGED <<img, hist, lut, new_img, err, saved, heap, args>>

Next == ReadFile \/ ComputeHistogram \/ Equalize \/ Apply \/ Save \/ Exit

Spec == Init /\ [][Next]_vars

(***************************************************************************)
(* A caller of the library.                                                *)
(***************************************************************************)
InitLib == Fresh("idle", NoArgs)

Returned(e) ==
    /\ pc' = "returned"
    /\ err' = e
    /\ UNCHANGED <<saved, exit_code>>

CallApplyLut ==
    /\ pc = "idle"
    /\ \E image \in LibImages, table \in Tables :
          LET a == NewArray(heap, image.data, image.dtype, image.shape)
              t == NewArray(a.heap, table.data, table.dtype, <<Len(table.data)>>)
              r == apply_lut(t.heap, a.arr, t.arr)
          IN  /\ args' = [fn |-> "apply_lut", image |-> image, table |-> table]
              /\ img' = a.arr
              /\ lut' = t.arr
              /\ heap' = r.heap
              /\ new_img' = r.ret
              /\ Returned(r.err)
    /\ UNCHANGED hist

\* a builder's result: the table it returns or the error it raises
Built(r) ==
    /\ IF r.err = "none"
       THEN LET t == NewArray(heap, r.table, "uint8", <<Len(r.table)>>)
            IN  heap' = t.heap /\ lut' = t.arr
       ELSE UNCHANGED <<heap, lut>>
    /\ Returned(r.err)
    /\ UNCHANGED <<img, new_img>>

CallAdjustBrightness ==
    /\ pc = "idle"
    /\ \E offset \in Offsets :
          /\ args' = [fn |-> "adjust_brightness", offset |-> offset]
          /\ Built([err |-> "none", table |-> adjust_brightness(offset)])
    /\ UNCHANGED hist

CallAdjustContrast ==
    /\ pc = "idle"
    /\ \E scale \in Scales, h \in Histograms :
          /\ args' = [fn |-> "adjust_contrast", scale |-> scale]
          /\ hist' = h
          /\ Built(adjust_contrast(scale, h))

CallAdjustExposure ==
    /\ pc = "idle"
    /\ \E gamma \in Gammas :
          /\ args' = [fn |-> "adjust_exposure", gamma |-> gamma]
          /\ Built(adjust_exposure(gamma))
    /\ UNCHANGED hist

CallEqualization ==
    /\ pc = "idle"
    /\ \E h \in Histograms, nanv \in NanCasts :
          /\ args' = [fn |-> "equalization"]
          /\ hist' = h
          /\ Built(Equalization(h, nanv))

\* the caller drops the results
Return ==
    /\ pc = "returned"
    /\ pc' = "idle"
    /\ img' = NoArray
    /\ hist' = <<>>
    /\ lut' = NoArray
    /\ new_img' = NoArray
    /\ err' = "none"
    /\ heap' = <<>>
    /\ args' = NoArgs
    /\ UNCHANGED <<saved, exit_code>>

NextLib ==
    \/ CallApplyLut
    \/ CallAdjustBrightness
    \/ CallAdjustContrast
    \/ CallAdjustExposure
    \/ CallEqualization
    \/ Return

SpecLib == InitLib /\ [][NextLib]_vars

(***************************************************************************)
(* Properties.                                                             *)
(***************************************************************************)
Clamp(x) == IF x > MaxIntensity THEN MaxIntensity ELSE IF x < 0 THEN 0 ELSE x

\* n / d rounded toward zero, d > 0
TruncZero(n, d) == IF n >= 0 THEN n \div d ELSE -((-n) \div d)

Total(h) == SumRange(h, 1, Len(h))

ReturnedFrom(fn) == pc = "returned" /\ args.fn = fn

\* the sample of the argument image at coordinate p
ArgSample(p) == args.image.data[FlatIndex(args.image.shape, p) + 1]

ValidApplyArgs ==
    /\ args.image.dtype = "uint8"
    /\ Len(args.image.shape) \in {2, 3}
    /\ args.table.dtype = "uint8"
    /\ Len(args.table.data) = LutSize

\* C1: for an 8-bit image of two or three dimensions and a 256-entry 8-bit
\* table, apply_lut returns an image of the same shape whose sample at every
\* position p is table[image[p]].
C1_ApplyMapsEverySample ==
    (ReturnedFrom("apply_lut") /\ ValidApplyArgs) =>
        /\ err = "none"
        /\ new_img.shape = args.image.shape
        /\ new_img.dtype = "uint8"
        /\ Len(Data(heap, new_img)) = Size(args.image.shape)
        /\ \A p \in Coords(args.image.shape) :
              At(heap, new_img, p) = args.table.data[ArgSample(p) + 1]

\* a colour image of more than one row, column and channel has been mapped
\* by a table that is not the identity
C1_Witness ==
    /\ ReturnedFrom("apply_lut") /\ ValidApplyArgs
    /\ err = "none"
    /\ Len(args.image.shape) = 3
    /\ \A k \in 1..3 : args.image.shape[k] > 1
    /\ \E p \in Coords(args.image.shape) : At(heap, new_img, p) # ArgSample(p)
    /\ \E p, q \in Coords(args.image.shape) :
          At(heap, new_img, p) # At(heap, new_img, q)

\* C2: apply_lut raises ValueError whenever the table does not have exactly
\* 256 entries, whatever the image and its sample type (also when the image
\* or the table is not 8-bit), and returns no image.
C2_WrongLengthIsValueError ==
    (ReturnedFrom("apply_lut") /\ Len(args.table.data) # LutSize) =>
        /\ err = "ValueError"
        /\ new_img = NoArray

\* a table of the wrong length was given together with a 16-bit image
C2_Witness ==
    /\ ReturnedFrom("apply_lut")
    /\ Len(args.table.data) # LutSize
    /\ args.image.dtype # "uint8"
    /\ err = "ValueError"

\* C3: building the equalization table fails when the histogram sums to zero
\* or does not have exactly 256 entries, and no table is made.  The claim
\* names the error InvalidArgument (ValueError); any exception is accepted
\* here as the failure.
C3_BadHistogramIsRejected ==
    (ReturnedFrom("equalization") /\ (Len(hist) # LutSize \/ Total(hist) = 0)) =>
        /\ err # "none"
        /\ lut = NoArray

ValidHistogram == Len(hist) = LutSize /\ Total(hist) > 0

\* C4: for a 256-entry histogram with positive total the equalization table
\* is non-decreasing and every entry lies in 0..255.
C4_EqualizationMonotone ==
    (ReturnedFrom("equalization") /\ ValidHistogram) =>
        /\ err = "none"
        /\ Len(Data(heap, lut)) = LutSize
        /\ \A k \in 1..LutSize : Data(heap, lut)[k] \in 0..MaxIntensity
        /\ \A k \in 1..(LutSize - 1) : Data(heap, lut)[k] <= Data(heap, lut)[k + 1]

\* a histogram with three occupied bins gave a table with four levels
C4_Witness ==
    /\ ReturnedFrom("equalization") /\ ValidHistogram
    /\ err = "none"
    /\ Cardinality({k \in 1..LutSize : hist[k] > 0}) = 3
    /\ Cardinality({Data(heap, lut)[k] : k \in 1..LutSize}) = 4

\* clamp(truncate(255 * (h[0] + ... + h[i]) / total)), in exact arithmetic
ExactEqualization(h, total, i) ==
    Clamp((MaxIntensity * SumRange(h, 1, i + 1)) \div total)

\* C5: for a 256-entry histogram with positive total, entry i of the
\* equalization table is clamp(truncate(255 * (h[0] + ... + h[i]) / total)).
C5_EqualizationIsExact ==
    (ReturnedFrom("equalization") /\ ValidHistogram) =>
        LET total == Total(hist)
            table == Data(heap, lut)
        IN  /\ err = "none"
            /\ \A i \in 0..(LutSize - 1) :
                  table[i + 1] = ExactEqualization(hist, total, i)

\* clamp(i + offset) over the integers
ExactBrightness(i, offset) ==
    CASE offset.anchor = "zero" -> Clamp(i + offset.d)
      [] offset.anchor = "max" -> MaxIntensity
      [] offset.anchor = "min" -> 0

\* C6: for every integer offset, entry i of adjust_brightness(offset) is
\* max(0, min(255, i + offset)) and no error is raised.
C6_BrightnessClamps ==
    ReturnedFrom("adjust_brightness") =>
        /\ err = "none"
        /\ \A i \in 0..(LutSize - 1) :
              Data(heap, lut)[i + 1] = ExactBrightness(i, args.offset)

\* sum of i * h[i] divided by the total, truncated
ExactMean(h) ==
    SumRange([k \in 1..LutSize |-> (k - 1) * h[k]], 1, LutSize) \div Total(h)

ExactContrast(scale, b, i) ==
    Clamp(TruncZero(scale.num * i + (Pow2(scale.shift) - scale.num) * b,
                    Pow2(scale.shift)))

C8_NegativeParameterIsValueError ==
    /\ (ReturnedFrom("adjust_contrast")
          /\ (args.scale.num < 0 \/ Len(hist) # LutSize)) =>
            (err = "ValueError" /\ lut = NoArray)
    /\ (ReturnedFrom("adjust_exposure") /\ args.gamma < 0) =>
            (err = "ValueError" /\ lut = NoArray)

\* adjust_contrast(-0.5, H) with a valid histogram H has failed
C8_Witness ==
    /\ ReturnedFrom("adjust_contrast")
    /\ args.scale = [num |-> -1, shift |-> 1]
    /\ ValidHistogram
    /\ err = "ValueError"

\* C9: apply_lut leaves its arguments as they were, whether it returns or
\* raises, and the image it returns has a buffer of its own.
C9_ApplyLeavesArguments ==
    ReturnedFrom("apply_lut") =>
        /\ Data(heap, img) = args.image.data
        /\ img.shape = args.image.shape
        /\ Data(heap, lut) = args.table.data
        /\ err = "none" => (new_img.buf # img.buf /\ new_img.buf # lut.buf)

\* apply_lut has returned an image that differs from its argument
C9_Witness ==
    /\ ReturnedFrom("apply_lut")
    /\ err = "none"
    /\ Data(heap, new_img) # args.image.data

\* C10: the output is written only after the table has been built and
\* applied without error; a run with an error ends with a non-zero exit code
\* and writes nothing; a run without error ends with exit code 0 after
\* writing.
C10_SaveOnlyAfterApply ==
    /\ saved # <<>> =>
          /\ pc \in {"saved", "exit"}
          /\ err = "none"
          /\ lut # NoArray /\ new_img # NoArray
          /\ saved[1].data = Data(heap, new_img)
          /\ \A k \in 1..Len(saved[1].data) :
                saved[1].data[k] = Data(heap, lut)[Data(heap, img)[k] + 1]
    /\ err # "none" => (pc = "exit" /\ exit_code > 0 /\ saved = <<>>)
    /\ (pc = "exit" /\ err = "none") => (exit_code = 0 /\ saved # <<>>)
    /\ pc # "exit" => exit_code = -1

\* a run has ended with exit code 0 after writing an image of several levels
C10_Witness ==
    /\ pc = "exit"
    /\ exit_code = 0
    /\ saved # <<>>
    /\ \E j, k \in 1..Len(saved[1].data) : saved[1].data[j] # saved[1].data[k]

====
